---- MODULE Spec2Model ----
(***************************************************************************)
(* Model of the Polymarket copy-trading bot: the mirror loop (copyLoop,    *)
(* CopyTrader.runOnce, CopyTrader.handleTrade), the sizing strategies, the *)
(* three clamp stages, the persisted state store and the redeem loop.      *)
(*                                                                         *)
(* Numbers.  The program uses IEEE doubles; the model uses fixed point.    *)
(* USD amounts and prices are integers in one money unit.  Share sizes are *)
(* integers in units of 1/SizeScale share, so that                         *)
(*     size = notional / price   is  (notional * SizeScale) \div price     *)
(*     notional = size * price   is  (size * price) \div SizeScale.        *)
(* A division that is not exact rounds down.                               *)
(*                                                                         *)
(* Time.  One clock `now` counts seconds-like ticks; Date.now() and        *)
(* nowSec() both read it.  The UTC day key is now \div DayLen.             *)
(***************************************************************************)
EXTENDS Integers, Sequences, FiniteSets, TLC

\* ------------------------------------------------------------------ bounds
MaxTime == 3
MaxCrashes == 1
MaxRedeemTime == 9

\* ------------------------------------------------------- model constants
SizeScale == 2
DayLen == 3
CacheTtl == 1
PageLimit == 100

Traders == <<"ta", "tb">>
TraderSet == {Traders[i] : i \in 1..Len(Traders)}
Tokens == {"tok1"}

Max(a, b) == IF a >= b THEN a ELSE b
Min(a, b) == IF a <= b THEN a ELSE b

\* ------------------------------------------------------------ arithmetic
DivPrice(notional, price) == (notional * SizeScale) \div price
MulPrice(size, price) == (size * price) \div SizeScale
TimesRatio(x, ratio) == (x * ratio.num) \div ratio.den

\* utils.ts isPositive: finite and > 0 (every model number is finite)
isPositive(n) == n > 0

\* ------------------------------------------------------- trades and keys
\* What the venue can report; the timestamp and the wallet are added when
\* the trade appears in a trader's feed.
Templates ==
  { [transactionHash |-> "h1", asset |-> "tok1", side |-> "BUY",
     size |-> 12, price |-> 1, usdcSize |-> 6],
    [transactionHash |-> "h2", asset |-> "tok1", side |-> "BUY",
     size |-> 4, price |-> 2, usdcSize |-> 4],
    [transactionHash |-> "h3", asset |-> "tok1", side |-> "SELL",
     size |-> 8, price |-> 1, usdcSize |-> 4] }

tradeKey(trade) ==
  <<trade.transactionHash, trade.asset, trade.side, trade.size, trade.price>>

Keys == {tradeKey(t) : t \in Templates}

MkTrade(tpl, trader, ts) ==
  [transactionHash |-> tpl.transactionHash, asset |-> tpl.asset,
   side |-> tpl.side, size |-> tpl.size, price |-> tpl.price,
   usdcSize |-> tpl.usdcSize, proxyWallet |-> trader, timestamp |-> ts]

\* ---------------------------------------------------------------- config
\* config.ts Config, the fields the mirror loop reads.  A ratio is num/den.
Ratio(n, d) == [num |-> n, den |-> d]

BaseConfig ==
  [copyTraders |-> Traders,
   traderAllocations |-> [t \in {} |-> Ratio(1, 1)],
   copyStrategy |-> "PERCENT_USD",
   copyRatio |-> Ratio(1, 1),
   fixedUsd |-> 3,
   fixedShares |-> 4,
   minTradeUsd |-> 1,
   maxTradeUsd |-> 4,
   maxDailyVolumeUsd |-> 7,
   maxPositionSizeUsd |-> 10,
   copySide |-> "BOTH",
   tradeLookbackSec |-> 2,
   dryRun |-> FALSE,
   maxSeenTradesAgeSec |-> 8,
   autoRedeem |-> FALSE]

PruneAllConfig == [BaseConfig EXCEPT !.maxSeenTradesAgeSec = 0]

\* AUTO_REDEEM on: main() starts the redeem loop.
RedeemConfig == [BaseConfig EXCEPT !.autoRedeem = TRUE]

\* The configurations loadConfig can return that the model runs under.
Configs ==
  { BaseConfig,
    [BaseConfig EXCEPT !.copySide = "SELL", !.copyStrategy = "FIXED_SHARES"],
    [BaseConfig EXCEPT !.copyStrategy = "PERCENT_SHARES",
                       !.copyRatio = Ratio(1, 2),
                       !.traderAllocations = [t \in {"tb"} |-> Ratio(0, 1)]],
    [BaseConfig EXCEPT !.copyStrategy = "FIXED_USD", !.dryRun = TRUE],
    [BaseConfig EXCEPT !.minTradeUsd = 3, !.maxTradeUsd = 2],
    PruneAllConfig }

\* ------------------------------------------------------------ conditions
\* The market condition ids of the positions the account can hold.
Conditions == {"c1", "c2"}

\* ------------------------------------------------------- persisted state
\* state.ts State.  A Record<string, number> is a function to Nat in which
\* 0 stands for "no entry": the program reads both with a truthiness test.
\* The day key "" of the default state is NoDay.
NoDay == 0 - 1

defaultState ==
  [lastSeen |-> [t \in TraderSet |-> 0],
   seenTrades |-> [k \in Keys |-> 0],
   dailyVolume |-> [day |-> NoDay, spentUsd |-> 0],
   redeemAttempts |-> [c \in Conditions |-> 0]]

dayKeyUtc(t) == t \div DayLen

\* A rollover that changes the day key and keeps the spent amount.
ensureDailyVolumeKeepSpent(dv, key) == [day |-> key, spentUsd |-> dv.spentUsd]

ensureDailyVolume(dv, key) ==
  IF dv.day # key THEN [day |-> key, spentUsd |-> 0] ELSE dv

\* noteSeenTrade without its assignment.
noteSeenTradeLost(seen, key, timestamp) == seen

noteSeenTrade(seen, key, timestamp) == [seen EXCEPT ![key] = timestamp]

pruneSeenTrades(seen, t, maxAgeSec) ==
  [k \in DOMAIN seen |-> IF seen[k] < t - maxAgeSec THEN 0 ELSE seen[k]]

\* ---------------------------------------------------------------- sizing
Rejected == [ok |-> FALSE, size |-> 0, notional |-> 0]
Sized(size, notional) == [ok |-> TRUE, size |-> size, notional |-> notional]

\* A ratio that ignores the per-trader overrides.
effectiveRatioGlobal(cfg, trader) == cfg.copyRatio

effectiveRatio(cfg, trader) ==
  IF trader \in DOMAIN cfg.traderAllocations
    THEN cfg.traderAllocations[trader]
    ELSE cfg.copyRatio

\* computeSize without the test of line 85.
computeSizeUnchecked(cfg, trade) ==
  IF ~(trade.price > 0) THEN Rejected
  ELSE
    LET price == trade.price
        ratio == IF trade.proxyWallet \in DOMAIN cfg.traderAllocations
                   THEN cfg.traderAllocations[trade.proxyWallet]
                   ELSE cfg.copyRatio
        scaled(x) == (x * ratio.num) \div ratio.den
        notional ==
          CASE cfg.copyStrategy = "PERCENT_USD" -> scaled(trade.usdcSize)
            [] cfg.copyStrategy = "PERCENT_SHARES" ->
                 (scaled(trade.size) * price) \div SizeScale
            [] cfg.copyStrategy = "FIXED_USD" -> cfg.fixedUsd
            [] OTHER -> (cfg.fixedShares * price) \div SizeScale
        size ==
          CASE cfg.copyStrategy = "PERCENT_USD" -> (notional * SizeScale) \div price
            [] cfg.copyStrategy = "PERCENT_SHARES" -> scaled(trade.size)
            [] cfg.copyStrategy = "FIXED_USD" -> (notional * SizeScale) \div price
            [] OTHER -> cfg.fixedShares
    IN Sized(size, notional)

computeSize(cfg, trade) ==
  IF ~isPositive(trade.price) THEN Rejected
  ELSE
    LET price == trade.price
        ratio == effectiveRatio(cfg, trade.proxyWallet)
        notional ==
          CASE cfg.copyStrategy = "PERCENT_USD" -> TimesRatio(trade.usdcSize, ratio)
            [] cfg.copyStrategy = "PERCENT_SHARES" ->
                 MulPrice(TimesRatio(trade.size, ratio), price)
            [] cfg.copyStrategy = "FIXED_USD" -> cfg.fixedUsd
            [] cfg.copyStrategy = "FIXED_SHARES" -> MulPrice(cfg.fixedShares, price)
            [] OTHER -> 0
        size ==
          CASE cfg.copyStrategy = "PERCENT_USD" -> DivPrice(notional, price)
            [] cfg.copyStrategy = "PERCENT_SHARES" -> TimesRatio(trade.size, ratio)
            [] cfg.copyStrategy = "FIXED_USD" -> DivPrice(notional, price)
            [] cfg.copyStrategy = "FIXED_SHARES" -> cfg.fixedShares
            [] OTHER -> 0
    IN IF ~isPositive(size) \/ ~isPositive(notional) THEN Rejected
       ELSE Sized(size, notional)

\* ----------------------------------------------------------- clamp stages
\* A stage result: ok, the (size, notional) it passes on, and the daily
\* counter as the stage leaves it (clampToLimits calls ensureDailyVolume).
Reject(dv) == [ok |-> FALSE, size |-> 0, notional |-> 0, dailyVolume |-> dv]
Pass(size, notional, dv) ==
  [ok |-> TRUE, size |-> size, notional |-> notional, dailyVolume |-> dv]

\* Trade bounds that raise a small notional to the minimum.
tradeBoundStageRaise(cfg, size, notional, price) ==
  LET low == notional < cfg.minTradeUsd
      over == notional > cfg.maxTradeUsd
      n == IF low THEN cfg.minTradeUsd
           ELSE IF over THEN cfg.maxTradeUsd ELSE notional
      s == IF low \/ over THEN (n * SizeScale) \div price ELSE size
  IN IF s > 0 /\ n > 0 THEN [ok |-> TRUE, size |-> s, notional |-> n]
     ELSE [ok |-> FALSE, size |-> 0, notional |-> 0]

\* clampToLimits, lines 95-102: the per-trade bounds.
tradeBoundStage(cfg, size, notional, price) ==
  IF notional < cfg.minTradeUsd THEN Rejected
  ELSE
    LET over == notional > cfg.maxTradeUsd
        n == IF over THEN cfg.maxTradeUsd ELSE notional
        s == IF over THEN DivPrice(n, price) ELSE size
    IN IF ~isPositive(s) \/ ~isPositive(n) THEN Rejected ELSE Sized(s, n)

\* The daily stage without the shrink to what is left of the cap.
dailyVolumeStageNoShrink(cfg, dv0, dayKey, side, size, notional, price) ==
  IF side = "BUY" THEN
    LET dv == [day |-> dayKey,
               spentUsd |-> IF dv0.day # dayKey THEN 0 ELSE dv0.spentUsd]
        remaining == cfg.maxDailyVolumeUsd - dv.spentUsd
    IN IF remaining <= 0 THEN [ok |-> FALSE, size |-> 0, notional |-> 0,
                               dailyVolume |-> dv]
       ELSE [ok |-> TRUE, size |-> size, notional |-> notional,
             dailyVolume |-> dv]
  ELSE [ok |-> TRUE, size |-> size, notional |-> notional, dailyVolume |-> dv0]

\* The daily stage applied to either side.
dailyVolumeStageAnySide(cfg, dv0, dayKey, side, size, notional, price) ==
  LET dv == [day |-> dayKey,
             spentUsd |-> IF dv0.day # dayKey THEN 0 ELSE dv0.spentUsd]
      remaining == cfg.maxDailyVolumeUsd - dv.spentUsd
      no == [ok |-> FALSE, size |-> 0, notional |-> 0, dailyVolume |-> dv]
  IN IF remaining <= 0 THEN no
     ELSE IF notional > remaining
       THEN IF remaining < cfg.minTradeUsd THEN no
            ELSE [ok |-> TRUE, size |-> (remaining * SizeScale) \div price,
                  notional |-> remaining, dailyVolume |-> dv]
       ELSE [ok |-> TRUE, size |-> size, notional |-> notional, dailyVolume |-> dv]

\* clampToLimits, lines 104-113: the daily cap, BUY only.
dailyVolumeStage(cfg, dv0, dayKey, side, size, notional, price) ==
  IF side = "BUY" THEN
    LET dv == ensureDailyVolume(dv0, dayKey)
        remaining == cfg.maxDailyVolumeUsd - dv.spentUsd
    IN IF remaining <= 0 THEN Reject(dv)
       ELSE IF notional > remaining
         THEN IF remaining < cfg.minTradeUsd THEN Reject(dv)
              ELSE Pass(DivPrice(remaining, price), remaining, dv)
         ELSE Pass(size, notional, dv)
  ELSE Pass(size, notional, dv0)

clampToLimits(cfg, dv0, dayKey, side, size, notional, price) ==
  LET bounded == tradeBoundStage(cfg, size, notional, price)
  IN IF ~bounded.ok THEN Reject(dv0)
     ELSE dailyVolumeStage(cfg, dv0, dayKey, side,
                           bounded.size, bounded.notional, price)

\* A Position as getPositionByToken returns it: present is FALSE for
\* `undefined`; curPrice is always reported by the venue of the model.
NoPosition == [present |-> FALSE, size |-> 0, curPrice |-> 0]
Position(size, curPrice) ==
  [present |-> TRUE, size |-> size, curPrice |-> curPrice]

\* A position stage that lets a SELL through with the candidate size
\* whenever something is held.
clampToPositionSellAll(cfg, position, side, size, notional, price) ==
  IF side = "BUY" THEN
    LET currentValue ==
          IF position.present
            THEN (position.size * position.curPrice) \div SizeScale ELSE 0
        remaining == cfg.maxPositionSizeUsd - currentValue
    IN IF remaining <= 0 THEN Rejected
       ELSE IF notional > remaining
         THEN IF remaining < cfg.minTradeUsd THEN Rejected
              ELSE Sized((remaining * SizeScale) \div price, remaining)
         ELSE Sized(size, notional)
  ELSE
    IF ~position.present \/ position.size <= 0 THEN Rejected
    ELSE Sized(size, notional)

\* A position stage that lets a BUY through with the candidate notional
\* whenever something is left of the cap.
clampToPositionBuyAll(cfg, position, side, size, notional, price) ==
  IF side = "BUY" THEN
    LET currentValue ==
          IF position.present
            THEN (position.size * position.curPrice) \div SizeScale ELSE 0
        remaining == cfg.maxPositionSizeUsd - currentValue
    IN IF remaining <= 0 THEN Rejected ELSE Sized(size, notional)
  ELSE
    IF ~position.present \/ position.size <= 0 THEN Rejected
    ELSE IF size > position.size
      THEN IF (position.size * price) \div SizeScale < cfg.minTradeUsd THEN Rejected
           ELSE Sized(position.size, (position.size * price) \div SizeScale)
      ELSE Sized(size, notional)

clampToPosition(cfg, position, side, size, notional, price) ==
  IF side = "BUY" THEN
    LET priceHint == position.curPrice
        currentValue ==
          IF position.present THEN MulPrice(position.size, priceHint) ELSE 0
        remaining == cfg.maxPositionSizeUsd - currentValue
    IN IF remaining <= 0 THEN Rejected
       ELSE IF notional > remaining
         THEN IF remaining < cfg.minTradeUsd THEN Rejected
              ELSE Sized(DivPrice(remaining, price), remaining)
         ELSE Sized(size, notional)
  ELSE
    IF ~position.present \/ position.size <= 0 THEN Rejected
    ELSE IF size > position.size
      THEN IF MulPrice(position.size, price) < cfg.minTradeUsd THEN Rejected
           ELSE Sized(position.size, MulPrice(position.size, price))
      ELSE Sized(size, notional)

\* A side filter that lets every trade through.
copyEverySide(cfg, trade) == TRUE

shouldCopySide(cfg, trade) ==
  IF cfg.copySide = "BOTH" THEN TRUE ELSE cfg.copySide = trade.side

\* A seen test that never finds the fingerprint.
neverSeen(seen, key) == FALSE

\* handleTrade line 152: the truthiness test on the seen record.
alreadySeen(seen, key) == seen[key] # 0

\* ------------------------------------------------------- positions cache
\* The venue's price of a token, and what getPositions returns for the
\* sizes the account holds (a failed fetch returns the empty list).
VenuePrice == 2
positionsList(held) == [a \in Tokens |-> held[a]]
emptyList == [a \in Tokens |-> 0]

\* PositionCache.getPositions: the list it returns at time t when a fetch
\* would return `fetched`, and the cache it leaves.
cacheFresh(cache, t) == t - cache.lastFetch < CacheTtl
getPositions(cache, t, fetched) ==
  IF cacheFresh(cache, t) THEN cache
  ELSE [lastFetch |-> t, positions |-> fetched]

getPositionByToken(positions, tokenId) ==
  IF positions[tokenId] > 0
    THEN Position(positions[tokenId], VenuePrice)
    ELSE NoPosition

\* ------------------------------------------------------------- the feed
RECURSIVE sortAsc(_)
sortAsc(S) ==
  IF S = {} THEN <<>>
  ELSE LET m == CHOOSE x \in S : \A y \in S : x.timestamp <= y.timestamp
       IN <<m>> \o sortAsc(S \ {m})

\* DataApiClient.getTrades: start and end are sent only when truthy; the
\* venue answers with the trader's trades in [start, end], ascending, one
\* page of at most `limit`.
getTrades(trades, start, end, limit) ==
  LET hit == {t \in trades : /\ (start = 0 \/ t.timestamp >= start)
                             /\ (end = 0 \/ t.timestamp <= end)}
      all == sortAsc(hit)
  IN IF Len(all) <= limit THEN all ELSE SubSeq(all, 1, limit)

\* A lower bound that starts again at the cursor itself.
fetchStartAtCursor(cfg, last, t) ==
  IF last # 0 THEN last ELSE t - cfg.tradeLookbackSec

\* A cursor that is written only while the trader has none.
advanceCursorOnce(last, timestamp) == IF last # 0 THEN last ELSE timestamp

\* runOnce line 230 and line 247.
fetchStart(cfg, last, t) ==
  IF last # 0 THEN last + 1 ELSE t - cfg.tradeLookbackSec
advanceCursor(last, timestamp) == Max(last, timestamp)

\* ------------------------------------------------------------ handleTrade
\* handleTrade up to the order (lines 149-178): the branch taken, the state
\* it leaves and the order it is about to log (dryRun) or place (submit).
evaluate(cfg, st, position, trade, dayKey) ==
  LET key == tradeKey(trade)
      computed == computeSize(cfg, trade)
      clamped == clampToLimits(cfg, st.dailyVolume, dayKey, trade.side,
                               computed.size, computed.notional, trade.price)
      positionClamped == clampToPosition(cfg, position, trade.side,
                                         clamped.size, clamped.notional, trade.price)
      marked(dv) == [st EXCEPT !.seenTrades = noteSeenTrade(@, key, trade.timestamp),
                               !.dailyVolume = dv]
      out(branch, st2, size, notional) ==
        [branch |-> branch, state |-> st2, size |-> size, notional |-> notional]
  IN IF ~shouldCopySide(cfg, trade) THEN out("filtered", st, 0, 0)
     ELSE IF alreadySeen(st.seenTrades, key) THEN out("seen", st, 0, 0)
     ELSE IF ~computed.ok THEN out("unsizeable", marked(st.dailyVolume), 0, 0)
     ELSE IF ~clamped.ok THEN out("rejectedLimits", marked(clamped.dailyVolume), 0, 0)
     ELSE IF ~positionClamped.ok
       THEN out("rejectedPosition", marked(clamped.dailyVolume), 0, 0)
     ELSE out(IF cfg.dryRun THEN "dryRun" ELSE "submit",
              [st EXCEPT !.dailyVolume = clamped.dailyVolume],
              positionClamped.size, positionClamped.notional)

\* The branches that get as far as clampToPosition and so read the cache.
ReadsPositions == {"rejectedPosition", "dryRun", "submit"}

\* handleTrade lines 199-202: the daily counter after a placed BUY.
recordSpend(dv, dayKey, side, notional) ==
  IF side = "BUY"
    THEN [ensureDailyVolume(dv, dayKey) EXCEPT !.spentUsd = @ + notional]
    ELSE dv

\* ClobService.placeLimitOrder: what a call does, by the market's minimum
\* order size and the venue's answer.  "belowMin" returns without posting,
\* "rejected" is posted and refused (placeLimitOrder throws), "open" and
\* "filled" are posted and accepted ("filled" at once, "open" resting).
MinOrderSize == 3
Answers == {"rejected", "filled"}
placeLimitOrder(size, minOrderSize, answer) ==
  IF size < minOrderSize THEN "belowMin" ELSE answer
\* The spend recorded after every call, whether or not it threw.
ReturnedOrThrew == {"belowMin", "open", "filled", "rejected"}

Returned == {"belowMin", "open", "filled"}
Posted == {"rejected", "open", "filled"}
Accepted == {"open", "filled"}

\* ------------------------------------------------------------ redeem loop
\* index.ts REDEEM_COOLDOWN_SEC, in ticks of the clock.
REDEEM_COOLDOWN_SEC == 2

\* toBaseUnits(amount, 6).  A position size is a number of shares; the
\* model holds it as a count of 1/SubUnit of a base unit (a base unit is
\* 10^-Decimals share), so that amount * factor is units / SubUnit and
\* Math.round has something to round.  NaN stands for every size that is
\* not a finite number.
Decimals == 6
SubUnit == 10
Factor == 10 ^ Decimals
Amount(units) == [finite |-> TRUE, units |-> units]
NaN == [finite |-> FALSE, units |-> 0]
Shares(n) == Amount(n * Factor * SubUnit)

\* A conversion that cuts the fraction of a base unit off.
toBaseUnitsTruncated(amount) ==
  IF ~amount.finite THEN 0 ELSE Max(0, amount.units \div SubUnit)

\* Math.round(x) is floor(x + 1/2).
toBaseUnits(amount) ==
  IF ~amount.finite THEN 0
  ELSE Max(0, (amount.units + SubUnit \div 2) \div SubUnit)

\* types.ts Position, the fields the redeem loop reads.
SettlePosition(c, idx, size, red, neg) ==
  [conditionId |-> c, outcomeIndex |-> idx, size |-> size,
   redeemable |-> red, negativeRisk |-> neg]

\* The positions of the account in markets that can resolve: two outcomes
\* of a standard market and one outcome of a negative-risk market.  The
\* data API lists the positions of a market once it is resolved, and also
\* when it is "unflagged": listed with the redeemable flag absent.
SettlePositions(flagged) ==
  { SettlePosition("c1", 0, Amount(40), flagged, FALSE),
    SettlePosition("c1", 1, Amount(20), flagged, FALSE),
    SettlePosition("c2", 0, Amount(60), flagged, TRUE) }

\* DataApiClient.getPositions(profile, true): the positions the data API
\* lists, the ones of the resolved and of the unflagged markets not
\* redeemed yet; [] when the request fails.
redeemablePositions(markets, fetchedOk) ==
  IF fetchedOk
    THEN {p \in SettlePositions(TRUE) : markets[p.conditionId] = "resolved"}
         \cup {p \in SettlePositions(FALSE) : markets[p.conditionId] = "unflagged"}
    ELSE {}

\* A cooldown test that lets every position through.
eligibleAlways(positions, redeemAttempts, t) == positions

\* redeemLoop, the filter: the positions whose condition was last attempted
\* more than the cooldown ago (0 when never).
eligible(positions, redeemAttempts, t) ==
  {pos \in positions : t - redeemAttempts[pos.conditionId] > REDEEM_COOLDOWN_SEC}

\* A grouping that keeps the positions not flagged redeemable.
byConditionOfAll(positions) == {pos.conditionId : pos \in positions}

\* RedeemService.redeemPositions: the groups, one per condition id of the
\* redeemable positions handed over.
byCondition(positions) == {pos.conditionId : pos \in {q \in positions : q.redeemable}}

\* byCondition[conditionId]: the redeemable positions of one condition.
groupOf(positions, c) ==
  {pos \in positions : pos.redeemable /\ pos.conditionId = c}

\* buildNegRiskAmounts: amounts[idx] summed over the group, idx 0 for
\* outcome index 0 and 1 for every other outcome index.
RECURSIVE sumBaseUnits(_, _)
sumBaseUnits(group, idx) ==
  IF group = {} THEN 0
  ELSE LET pos == CHOOSE q \in group : TRUE
           bucket == IF pos.outcomeIndex = 0 THEN 0 ELSE 1
       IN (IF bucket = idx THEN toBaseUnits(pos.size) ELSE 0)
          + sumBaseUnits(group \ {pos}, idx)

buildNegRiskAmounts(group) == <<sumBaseUnits(group, 0), sumBaseUnits(group, 1)>>

\* createCtfRedeem and createNegRiskRedeem: the settlement instruction.
createCtfRedeem(c) == [conditionId |-> c, kind |-> "ctf", amounts |-> <<>>]
createNegRiskRedeem(c, amounts) ==
  [conditionId |-> c, kind |-> "negRisk", amounts |-> amounts]

\* redeemPositions, lines 182-186: the instruction of one group.
redeemInstruction(c, group) ==
  IF \E pos \in group : pos.negativeRisk
    THEN createNegRiskRedeem(c, buildNegRiskAmounts(group))
    ELSE createCtfRedeem(c)

\* new Set(eligible.map(p => p.conditionId))
attemptedConditions(positions) == {pos.conditionId : pos \in positions}

\* markRedeemAttempt for every condition of cs at time t.
markRedeemAttempt(redeemAttempts, cs, t) ==
  [c \in Conditions |-> IF c \in cs THEN t ELSE redeemAttempts[c]]

\* The outcomes of RedeemService.execute: the transaction hash of a mined
\* transaction, or null (the relayer refused, the wait failed or timed out).
Executions == {"mined", "null"}

\* The locals of the redeem loop: where it is (off when redeemService is
\* null), `now`, `eligible`, and the groups redeemPositions has not
\* submitted yet.
RedeemOff == [pc |-> "off", now |-> 0, eligible |-> {}, pending |-> {}]
RedeemWaiting == [pc |-> "wait", now |-> 0, eligible |-> {}, pending |-> {}]
startRedeem(cfg) == IF cfg.autoRedeem THEN RedeemWaiting ELSE RedeemOff

\* ================================================================= state
VARIABLES
  config,    \* the Config loaded at startup
  now,       \* the wall clock
  feed,      \* venue: each trader's trades
  held,      \* venue: the size the account holds of each token
  state,     \* the State object shared by the loops
  disk,      \* the state file
  cache,     \* CopyTrader.positionCache
  copy,      \* copyLoop / runOnce / handleTrade: pc and local variables
  attempts,  \* history: placeLimitOrder calls per fingerprint
  posted,    \* history: orders posted to the venue per fingerprint
  bought,    \* history: total notional of the BUY orders accepted per token
  failed,    \* history: the traders whose fetch failed in this iteration
  crashes,   \* history: restarts so far
  redeem,    \* redeemLoop / redeemPositions: pc and local variables
  markets,   \* venue: each condition open, unflagged, resolved or redeemed
  submitted, \* history: the times of the settlement submissions per condition
  instructions, \* history: the settlement instructions submitted, in order
  saving     \* per loop: the fs.writeFile call in flight, if any

vars == <<config, now, feed, held, state, disk, cache, copy, attempts, posted,
          bought, failed, crashes, redeem, markets, submitted, instructions, saving>>
stored == <<disk, saving>>
sent == <<submitted, instructions>>
settlement == <<redeem, markets, sent>>
venue == <<feed, held>>
history == <<attempts, posted, bought, failed>>

\* The state file: whether it exists, the snapshot at its head and its
\* length.  JsonLen is the length of JSON.stringify(state): it grows with
\* the entries of the three records.  A file is parseable when it is
\* exactly one snapshot long.
JsonLen(st) ==
  1 + Cardinality({t \in DOMAIN st.lastSeen : st.lastSeen[t] # 0})
    + Cardinality({k \in DOMAIN st.seenTrades : st.seenTrades[k] # 0})
    + Cardinality({c \in DOMAIN st.redeemAttempts : st.redeemAttempts[c] # 0})

NoFile == [exists |-> FALSE, data |-> defaultState, len |-> 0]
Parseable(file) == file.exists /\ file.len = JsonLen(file.data)

\* fs.writeFile, step by step: the open with flag 'w' truncates the file,
\* the write puts the snapshot at offset 0 and leaves what lies behind it.
writeFileOpen(file) == [exists |-> TRUE, data |-> defaultState, len |-> 0]
writeFileWrite(file, snapshot) ==
  [exists |-> TRUE, data |-> snapshot, len |-> Max(file.len, JsonLen(snapshot))]

\* The write of a call nobody else writes into.
NotSaving == [open |-> FALSE, data |-> defaultState]
Loops == {"copy", "redeem"}
\* A start that ignores the state file.
loadStateFresh(file) == defaultState

loadState(file) == IF file.exists THEN file.data ELSE defaultState
saveState(st) == writeFileWrite(writeFileOpen(NoFile), st)

\* The locals of the mirror loop: where it is (pc), runOnce's `now`, the
\* index of `trader` in copyTraders, `start`, `trades`, the index of
\* `trade` in trades, and handleTrade's `size` and `notional`.
Sleeping == [pc |-> "sleep", now |-> 0, idx |-> 0, start |-> 0, trades |-> <<>>,
             k |-> 0, size |-> 0, notional |-> 0]
NewCache == [lastFetch |-> 0, positions |-> emptyList]
InitialHeld == 6

Init ==
  /\ config \in Configs
  /\ now = CacheTtl + 1
  /\ feed = [t \in TraderSet |-> {}]
  /\ held = [a \in Tokens |-> InitialHeld]
  /\ state = loadState(NoFile)
  /\ disk = NoFile
  /\ cache = NewCache
  /\ copy = Sleeping
  /\ attempts = [k \in Keys |-> 0]
  /\ posted = [k \in Keys |-> 0]
  /\ bought = [a \in Tokens |-> 0]
  /\ failed = {}
  /\ crashes = 0
  /\ redeem = startRedeem(config)
  /\ markets = [c \in Conditions |-> "open"]
  /\ submitted = [c \in Conditions |-> <<>>]
  /\ instructions = <<>>
  /\ saving = [l \in Loops |-> NotSaving]

\* ---------------------------------------------------------- environment
Tick ==
  /\ now < MaxTime
  /\ now' = now + 1
  /\ UNCHANGED <<settlement, config, venue, state, stored, cache, copy, history, crashes>>

Happened == {tradeKey(t) : t \in UNION {feed[x] : x \in TraderSet}}

\* One transaction fills orders of the traders in who: each of them gets
\* the trade in its feed, with the same fingerprint.
Makers(tpl) ==
  CASE tpl.transactionHash = "h1" -> {{"ta"}, {"ta", "tb"}}
    [] tpl.transactionHash = "h2" -> {{"tb"}}
    [] OTHER -> {{"ta"}}

TradeHappens(tpl, who) ==
  /\ tradeKey(tpl) \notin Happened
  /\ feed' = [t \in TraderSet |->
               IF t \in who THEN feed[t] \cup {MkTrade(tpl, t, now)} ELSE feed[t]]
  /\ UNCHANGED <<settlement, config, now, held, state, stored, cache, copy, history, crashes>>

\* ----------------------------------------------------------- mirror loop
Trader == config.copyTraders[copy.idx]
Trade == copy.trades[copy.k]
Polling == copy.pc = "poll" /\ copy.idx <= Len(config.copyTraders)

\* copyLoop line 62, runOnce line 225: a new iteration reads the clock once.
StartIteration ==
  /\ copy.pc = "sleep"
  /\ copy' = [copy EXCEPT !.pc = "poll", !.now = now, !.idx = 1]
  /\ UNCHANGED <<settlement, config, now, venue, state, stored, cache, history, crashes>>

\* A catch that gives up the iteration instead of going on.
abortOnFetchFailure(cp) == [cp EXCEPT !.idx = Len(Traders) + 1]

\* runOnce line 237 (`continue` in the catch) and line 242.
afterFetchFailure(cp) == [cp EXCEPT !.idx = @ + 1]
afterEmptyFetch(cp) == [cp EXCEPT !.idx = @ + 1]

\* runOnce lines 229-243, getTrades answers with a page of at most limit.
FetchOkWith(limit) ==
  /\ Polling
  /\ LET start == fetchStart(config, state.lastSeen[Trader], copy.now)
         trades == getTrades(feed[Trader], start, copy.now, limit)
     IN copy' = IF trades = <<>>
                  THEN afterEmptyFetch(copy)
                  ELSE [copy EXCEPT !.pc = "handle", !.start = start,
                                    !.trades = trades, !.k = 1]
  /\ failed' = failed \ {Trader}
  /\ UNCHANGED <<settlement, config, now, venue, state, stored, cache, attempts, posted, bought,
                 crashes>>

FetchOk == FetchOkWith(PageLimit)

\* runOnce lines 233-238, getTrades throws.
FetchFail ==
  /\ Polling
  /\ copy' = afterFetchFailure(copy)
  /\ failed' = failed \cup {Trader}
  /\ UNCHANGED <<settlement, config, now, venue, state, stored, cache, attempts, posted, bought,
                 crashes>>

\* runOnce lines 245-248: after handleTrade returned for trades[k], the
\* loop goes to the next trade or to the next trader.
finishTrade(cp) ==
  IF cp.k = Len(cp.trades)
    THEN [cp EXCEPT !.pc = "poll", !.idx = @ + 1, !.start = 0, !.trades = <<>>,
                    !.k = 0, !.size = 0, !.notional = 0]
    ELSE [cp EXCEPT !.pc = "handle", !.k = @ + 1, !.size = 0, !.notional = 0]

\* A runOnce that starts handleTrade for the next trade of the batch while
\* the order of the current one is still awaited.
HandleTradeAhead ==
  \/ /\ copy.pc = "handle"
     /\ copy' = [copy EXCEPT !.pc = "place"]
     /\ UNCHANGED <<settlement, config, now, venue, state, stored, cache, history, crashes>>
  \/ /\ copy.pc = "place"
     /\ copy.k < Len(copy.trades)
     /\ state' = [state EXCEPT !.dailyVolume =
                    recordSpend(@, dayKeyUtc(now), "BUY", copy.notional)]
     /\ copy' = [copy EXCEPT !.k = @ + 1]
     /\ UNCHANGED <<settlement, config, now, venue, stored, cache, history, crashes>>

\* handleTrade lines 149-178, and runOnce line 247 when it returns early.
\* fetchedOk: whether a fetch of the positions, if one is made, succeeds.
HandleTradeWith(fetchedOk) ==
  /\ copy.pc = "handle"
  /\   LET fetched == IF fetchedOk THEN positionsList(held) ELSE emptyList
           got == getPositions(cache, now, fetched)
           position == getPositionByToken(got.positions, Trade.asset)
           r == evaluate(config, state, position, Trade, dayKeyUtc(now))
       IN /\ cache' = IF r.branch \in ReadsPositions THEN got ELSE cache
          /\ IF r.branch \in {"dryRun", "submit"}
               THEN /\ state' = r.state
                    /\ copy' = [copy EXCEPT !.pc = "place", !.size = r.size,
                                            !.notional = r.notional]
               ELSE /\ state' = [r.state EXCEPT !.lastSeen[Trader] =
                                   advanceCursor(@, Trade.timestamp)]
                    /\ copy' = finishTrade(copy)
  /\ UNCHANGED <<settlement, config, now, venue, stored, history, crashes>>

HandleTradeBegin == HandleTradeWith(TRUE)

\* The position after an accepted order that the venue filled at once.
fill(h, trade, size) ==
  [h EXCEPT ![trade.asset] =
     IF trade.side = "BUY" THEN @ + size ELSE Max(0, @ - size)]

\* A dry run that records the spend of the order it logs.
LogDryRunSpends ==
  /\ copy.pc = "place"
  /\ config.dryRun
  /\ state' = [state EXCEPT
                 !.dailyVolume = recordSpend(@, dayKeyUtc(now), Trade.side,
                                             copy.notional),
                 !.seenTrades = noteSeenTrade(@, tradeKey(Trade), Trade.timestamp),
                 !.lastSeen[Trader] = advanceCursor(@, Trade.timestamp)]
  /\ copy' = finishTrade(copy)
  /\ UNCHANGED <<settlement, config, now, venue, stored, cache, history, crashes>>

\* handleTrade lines 180-190 and runOnce line 247.
LogDryRun ==
  /\ copy.pc = "place"
  /\ config.dryRun
  /\ state' = [state EXCEPT
                 !.seenTrades = noteSeenTrade(@, tradeKey(Trade), Trade.timestamp),
                 !.lastSeen[Trader] = advanceCursor(@, Trade.timestamp)]
  /\ copy' = finishTrade(copy)
  /\ UNCHANGED <<settlement, config, now, venue, stored, cache, history, crashes>>

\* handleTrade lines 192-221 and runOnce line 247.
PlaceOrderWith(answer) ==
  /\ copy.pc = "place"
  /\ ~config.dryRun
  /\   LET key == tradeKey(Trade)
           result == placeLimitOrder(copy.size, MinOrderSize, answer)
           dv == IF result \in Returned
                   THEN recordSpend(state.dailyVolume, dayKeyUtc(now), Trade.side,
                                    copy.notional)
                   ELSE state.dailyVolume
       IN /\ state' = [state EXCEPT
                         !.dailyVolume = dv,
                         !.seenTrades = noteSeenTrade(@, key, Trade.timestamp),
                         !.lastSeen[Trader] = advanceCursor(@, Trade.timestamp)]
          /\ attempts' = [attempts EXCEPT ![key] = @ + 1]
          /\ posted' = IF result \in Posted
                         THEN [posted EXCEPT ![key] = @ + 1] ELSE posted
          /\ bought' = IF result \in Accepted /\ Trade.side = "BUY"
                         THEN [bought EXCEPT ![Trade.asset] = @ + copy.notional]
                         ELSE bought
          /\ held' = IF result = "filled" THEN fill(held, Trade, copy.size) ELSE held
  /\ copy' = finishTrade(copy)
  /\ UNCHANGED <<settlement, config, now, feed, stored, cache, failed, crashes>>

PlaceOrder == \E answer \in Answers : PlaceOrderWith(answer)

\* copyLoop lines 63-64: prune the seen set, then write the state file.
FinishIteration ==
  /\ copy.pc = "poll"
  /\ copy.idx > Len(config.copyTraders)
  /\ state' = [state EXCEPT !.seenTrades =
                 pruneSeenTrades(@, now, config.maxSeenTradesAgeSec)]
  /\ disk' = saveState(state')
  /\ copy' = Sleeping
  /\ failed' = {}
  /\ UNCHANGED <<settlement, saving, config, now, venue, cache, attempts, posted,
                 bought, crashes>>

\* The process dies and is started again: main() loads the state file.
Crash ==
  /\ crashes < MaxCrashes
  /\ crashes' = crashes + 1
  /\ state' = loadState(disk)
  /\ cache' = NewCache
  /\ copy' = Sleeping
  /\ failed' = {}
  /\ UNCHANGED <<settlement, config, now, venue, stored, attempts, posted, bought>>

Happens == \E tpl \in Templates : \E who \in Makers(tpl) : TradeHappens(tpl, who)

Next ==
  \/ Tick
  \/ Happens
  \/ StartIteration
  \/ FetchOk
  \/ FetchFail
  \/ HandleTradeBegin
  \/ LogDryRun
  \/ PlaceOrder
  \/ FinishIteration

Spec == Init /\ [][Next]_vars

\* The mirror loop of one configuration whose process can die anywhere and
\* whose fetches all succeed.
InitCrash == Init /\ config = BaseConfig

\* The trades of the crash runs: the BUY transactions.
HappensCrash ==
  \E tpl \in {x \in Templates : x.side = "BUY"} :
    \E who \in Makers(tpl) : TradeHappens(tpl, who)

NextCrash ==
  \/ Tick
  \/ HappensCrash
  \/ StartIteration
  \/ FetchOk
  \/ HandleTradeBegin
  \/ PlaceOrder
  \/ FinishIteration
  \/ Crash

SpecCrash == InitCrash /\ [][NextCrash]_vars

\* ======================================================== the redeem loop
\* The redeem loop of a process started with AUTO_REDEEM, while markets
\* resolve and settlement transactions are mined or fail.  The clock starts
\* later than the cooldown after the epoch, as every real clock does.
InitRedeem ==
  /\ config = RedeemConfig
  /\ now = REDEEM_COOLDOWN_SEC + 1
  /\ feed = [t \in TraderSet |-> {}]
  /\ held = [a \in Tokens |-> InitialHeld]
  /\ state = loadState(NoFile)
  /\ disk = NoFile
  /\ cache = NewCache
  /\ copy = Sleeping
  /\ attempts = [k \in Keys |-> 0]
  /\ posted = [k \in Keys |-> 0]
  /\ bought = [a \in Tokens |-> 0]
  /\ failed = {}
  /\ crashes = 0
  /\ redeem = startRedeem(config)
  /\ markets = [c \in Conditions |-> "open"]
  /\ submitted = [c \in Conditions |-> <<>>]
  /\ instructions = <<>>
  /\ saving = [l \in Loops |-> NotSaving]

mirror == <<feed, held, cache, copy, attempts, posted, bought, failed, crashes>>

RedeemTick ==
  /\ now < MaxRedeemTime
  /\ now' = now + 1
  /\ UNCHANGED <<config, mirror, state, stored, settlement>>

\* A market of the account resolves: the data API lists its positions,
\* flagged redeemable or, before that, with the flag absent.
Resolves ==
  \E c \in Conditions : \E to \in {"unflagged", "resolved"} :
    /\ \/ markets[c] = "open"
       \/ markets[c] = "unflagged" /\ to = "resolved"
    /\ markets' = [markets EXCEPT ![c] = to]
    /\ UNCHANGED <<config, now, mirror, state, stored, redeem, sent>>

\* redeemLoop line 74: the sleep is over (or the loop has just started) and
\* the next iteration calls getPositions.
RedeemStart ==
  /\ redeem.pc = "wait"
  /\ redeem' = [redeem EXCEPT !.pc = "fetch"]
  /\ UNCHANGED <<config, now, mirror, state, stored, markets, sent>>

\* redeemLoop, lines 76-83 and 92-94: fetch, read the clock, filter; with
\* nothing eligible the iteration ends and the loop sleeps.
RedeemFetchWith(fetchedOk) ==
  /\ redeem.pc = "fetch"
  /\ LET positions == redeemablePositions(markets, fetchedOk)
         el == eligible(positions, state.redeemAttempts, now)
     IN redeem' = IF el = {} THEN RedeemWaiting
                  ELSE [pc |-> "redeem", now |-> now, eligible |-> el,
                        pending |-> byCondition(el)]
  /\ UNCHANGED <<config, now, mirror, state, stored, markets, sent>>

RedeemFetch == \E fetchedOk \in BOOLEAN : RedeemFetchWith(fetchedOk)

\* redeemPositions, lines 181-193 of logger.ts: the next group is submitted;
\* a mined transaction redeems the positions of the condition.
RedeemExecute ==
  /\ redeem.pc = "redeem"
  /\ \E c \in redeem.pending : \E answer \in Executions :
       /\ submitted' = [submitted EXCEPT ![c] = Append(@, now)]
       /\ instructions' = Append(instructions,
                                 redeemInstruction(c, groupOf(redeem.eligible, c)))
       /\ markets' = IF answer = "mined"
                       THEN [markets EXCEPT ![c] = "redeemed"] ELSE markets
       /\ redeem' = [redeem EXCEPT !.pending = @ \ {c}]
  /\ UNCHANGED <<config, now, mirror, state, stored>>

\* redeemLoop, lines 86-90: redeemPositions has returned; every condition
\* of the eligible positions is marked with the time it is now, and the
\* state is saved.
RedeemMark ==
  /\ redeem.pc = "redeem"
  /\ redeem.pending = {}
  /\ state' = [state EXCEPT !.redeemAttempts =
                 markRedeemAttempt(@, attemptedConditions(redeem.eligible), now)]
  /\ disk' = saveState(state')
  /\ redeem' = RedeemWaiting
  /\ UNCHANGED <<config, now, mirror, markets, sent, saving>>

NextRedeem ==
  \/ RedeemTick
  \/ Resolves
  \/ RedeemStart
  \/ RedeemFetch
  \/ RedeemExecute
  \/ RedeemMark

SpecRedeem == InitRedeem /\ [][NextRedeem]_vars

\* ============================================================== one batch
\* redeemPositions on any list of positions: the run starts where
\* redeemLoop calls it and ends when the marks are written.
BatchSizes == {Shares(10), Shares(5), Amount(4), Amount(15), Amount(0 - 15), NaN}

BatchPositions ==
  { SettlePosition(c, idx, size, red, neg) :
      c \in Conditions, idx \in {0, 1}, size \in BatchSizes,
      red \in BOOLEAN, neg \in BOOLEAN }

\* Two positions of one negative-risk condition, one per outcome.
ExampleGroup ==
  { SettlePosition("c1", 0, Shares(10), TRUE, TRUE),
    SettlePosition("c1", 1, Shares(5), TRUE, TRUE) }

\* A negative-risk position and a position of another condition that is
\* not flagged redeemable.
UnflaggedPair ==
  { SettlePosition("c1", 0, Shares(5), TRUE, TRUE),
    SettlePosition("c2", 0, Shares(5), FALSE, FALSE) }

\* The lists handed over: one or two positions, or one of the two pairs
\* above and a third position.
BatchInputs ==
  {{p, q} : p \in BatchPositions, q \in BatchPositions}
  \cup {ExampleGroup \cup {r} : r \in BatchPositions}
  \cup {UnflaggedPair \cup {r} : r \in BatchPositions}

InitBatch ==
  /\ config = RedeemConfig
  /\ now = REDEEM_COOLDOWN_SEC + 1
  /\ feed = [t \in TraderSet |-> {}]
  /\ held = [a \in Tokens |-> InitialHeld]
  /\ state = loadState(NoFile)
  /\ disk = NoFile
  /\ cache = NewCache
  /\ copy = Sleeping
  /\ attempts = [k \in Keys |-> 0]
  /\ posted = [k \in Keys |-> 0]
  /\ bought = [a \in Tokens |-> 0]
  /\ failed = {}
  /\ crashes = 0
  /\ \E el \in BatchInputs :
       redeem = [pc |-> "redeem", now |-> now, eligible |-> el,
                 pending |-> byCondition(el)]
  /\ markets = [c \in Conditions |-> "resolved"]
  /\ submitted = [c \in Conditions |-> <<>>]
  /\ instructions = <<>>
  /\ saving = [l \in Loops |-> NotSaving]

NextBatch ==
  \/ RedeemExecute
  \/ RedeemMark

SpecBatch == InitBatch /\ [][NextBatch]_vars

\* ============================================================ both loops
\* main(): Promise.all([copyLoop(), redeemLoop()]).  The two loops of one
\* process take their steps in any order; a saveState call is two steps,
\* the open and the write, so that the calls of the two loops can overlap,
\* and it can reject (the directory or the file cannot be written), which
\* is the error of an iteration that the loop's catch block gets.  The
\* clock stands still, one market is redeemed already.
InitLoops ==
  /\ config = RedeemConfig
  /\ now = REDEEM_COOLDOWN_SEC + 1
  /\ feed = [t \in TraderSet |-> {}]
  /\ held = [a \in Tokens |-> InitialHeld]
  /\ state = loadState(NoFile)
  /\ disk = NoFile
  /\ cache = NewCache
  /\ copy = Sleeping
  /\ attempts = [k \in Keys |-> 0]
  /\ posted = [k \in Keys |-> 0]
  /\ bought = [a \in Tokens |-> 0]
  /\ failed = {}
  /\ crashes = 0
  /\ redeem = startRedeem(config)
  /\ markets = [c \in Conditions |-> IF c = "c1" THEN "open" ELSE "redeemed"]
  /\ submitted = [c \in Conditions |-> <<>>]
  /\ instructions = <<>>
  /\ saving = [l \in Loops |-> NotSaving]

\* The trades of these runs: a BUY and a SELL of the first trader.
HappensLoops ==
  \E tpl \in {x \in Templates : x.transactionHash \in {"h1", "h3"}} :
    TradeHappens(tpl, {"ta"})

\* An end of the iteration that prunes and sleeps without saving.
FinishIterationNoSave ==
  /\ copy.pc = "poll"
  /\ copy.idx > Len(config.copyTraders)
  /\ state' = [state EXCEPT !.seenTrades =
                 pruneSeenTrades(@, now, config.maxSeenTradesAgeSec)]
  /\ failed' = {}
  /\ copy' = Sleeping
  /\ UNCHANGED <<settlement, stored, config, now, venue, cache, attempts, posted,
                 bought, crashes>>

\* copyLoop lines 63-64: prune the seen set, then saveState as far as the
\* open of fs.writeFile, which holds JSON.stringify(state); or saveState
\* rejects and the catch block of line 65 is entered.
FinishIterationOpen ==
  /\ copy.pc = "poll"
  /\ copy.idx > Len(config.copyTraders)
  /\ state' = [state EXCEPT !.seenTrades =
                 pruneSeenTrades(@, now, config.maxSeenTradesAgeSec)]
  /\ failed' = {}
  /\ \E opened \in BOOLEAN :
       IF opened
         THEN /\ saving' = [saving EXCEPT !["copy"] = [open |-> TRUE, data |-> state']]
              /\ disk' = writeFileOpen(disk)
              /\ copy' = [Sleeping EXCEPT !.pc = "save"]
         ELSE /\ copy' = [Sleeping EXCEPT !.pc = "caught"]
              /\ UNCHANGED stored
  /\ UNCHANGED <<settlement, config, now, venue, cache, attempts, posted, bought, crashes>>

\* copyLoop line 64: the write of fs.writeFile is done, saveState returns.
CopyWritten ==
  /\ copy.pc = "save"
  /\ disk' = writeFileWrite(disk, saving["copy"].data)
  /\ saving' = [saving EXCEPT !["copy"] = NotSaving]
  /\ copy' = Sleeping
  /\ UNCHANGED <<settlement, config, now, venue, state, cache, history, crashes>>

\* A catch block that lets the error end the loop.
CopyRethrows ==
  /\ copy.pc = "caught"
  /\ copy' = [copy EXCEPT !.pc = "exited"]
  /\ UNCHANGED <<settlement, config, now, venue, state, stored, cache, history, crashes>>

\* copyLoop lines 65-68: the error is logged and the loop sleeps.
CopyCaught ==
  /\ copy.pc = "caught"
  /\ copy' = Sleeping
  /\ UNCHANGED <<settlement, config, now, venue, state, stored, cache, history, crashes>>

\* A mark that also clears the daily volume counter.
RedeemMarkOpenClearing ==
  /\ redeem.pc = "redeem"
  /\ redeem.pending = {}
  /\ state' = [state EXCEPT
                 !.redeemAttempts =
                   markRedeemAttempt(@, attemptedConditions(redeem.eligible), now),
                 !.dailyVolume = [day |-> NoDay, spentUsd |-> 0]]
  /\ saving' = [saving EXCEPT !["redeem"] = [open |-> TRUE, data |-> state']]
  /\ disk' = writeFileOpen(disk)
  /\ redeem' = [RedeemWaiting EXCEPT !.pc = "save"]
  /\ UNCHANGED <<config, now, mirror, markets, sent>>

\* redeemLoop lines 86-89: the marks, then saveState as far as the open of
\* fs.writeFile; or saveState rejects and the catch block is entered.
RedeemMarkOpen ==
  /\ redeem.pc = "redeem"
  /\ redeem.pending = {}
  /\ state' = [state EXCEPT !.redeemAttempts =
                 markRedeemAttempt(@, attemptedConditions(redeem.eligible), now)]
  /\ \E opened \in BOOLEAN :
       IF opened
         THEN /\ saving' = [saving EXCEPT !["redeem"] = [open |-> TRUE, data |-> state']]
              /\ disk' = writeFileOpen(disk)
              /\ redeem' = [RedeemWaiting EXCEPT !.pc = "save"]
         ELSE /\ redeem' = [RedeemWaiting EXCEPT !.pc = "caught"]
              /\ UNCHANGED stored
  /\ UNCHANGED <<config, now, mirror, markets, sent>>

\* redeemLoop line 89: the write is done, saveState returns, the loop sleeps.
RedeemWritten ==
  /\ redeem.pc = "save"
  /\ disk' = writeFileWrite(disk, saving["redeem"].data)
  /\ saving' = [saving EXCEPT !["redeem"] = NotSaving]
  /\ redeem' = RedeemWaiting
  /\ UNCHANGED <<config, now, mirror, state, markets, sent>>

\* redeemLoop lines 91-94: the error is logged and the loop sleeps.
RedeemCaught ==
  /\ redeem.pc = "caught"
  /\ redeem' = RedeemWaiting
  /\ UNCHANGED <<config, now, mirror, state, stored, markets, sent>>

CopyLoopStep ==
  \/ StartIteration
  \/ FetchOk
  \/ HandleTradeBegin
  \/ PlaceOrder
  \/ FinishIterationOpen
  \/ CopyWritten
  \/ CopyCaught

RedeemLoopStep ==
  \/ RedeemStart
  \/ RedeemFetch
  \/ RedeemExecute
  \/ RedeemMarkOpen
  \/ RedeemWritten
  \/ RedeemCaught

NextLoops ==
  \/ HappensLoops
  \/ Resolves
  \/ CopyLoopStep
  \/ RedeemLoopStep

SpecLoops == InitLoops /\ [][NextLoops]_vars

\* The loops under the scheduling of the event loop: a timer that is due
\* fires and an awaited call that has settled resumes its loop.
SpecLive == SpecLoops /\ WF_vars(CopyLoopStep) /\ WF_vars(RedeemLoopStep)

\* =============================================================== the page
\* The mirror loop of one configuration when a trader trades more often
\* than a page holds: the page limit of line 234 is scaled to
\* ScaledPageLimit trades, every fetch succeeds, and the first trader's
\* trades appear while the loop sleeps, later than the trader's cursor.
ScaledPageLimit == 2

InitPage == Init /\ config = BaseConfig

HappensPage ==
  /\ copy.pc = "sleep"
  /\ now > state.lastSeen["ta"]
  /\ \E tpl \in Templates : TradeHappens(tpl, {"ta"})

FetchPage == FetchOkWith(ScaledPageLimit)

NextPage ==
  \/ Tick
  \/ HappensPage
  \/ StartIteration
  \/ FetchPage
  \/ HandleTradeBegin
  \/ PlaceOrder
  \/ FinishIteration

SpecPage == InitPage /\ [][NextPage]_vars

\* ============================================================ the stages
\* handleTrade, stage by stage, on any trade the data API can hand over:
\* the run starts where runOnce calls handleTrade with one trade of one
\* trader, under any configuration, holding and daily counter, and steps
\* through the side filter and seen test, computeSize, the two stages of
\* clampToLimits, clampToPosition and the order.

\* A PERCENT_USD configuration with a per-trader override, and one with a
\* negative ratio (COPY_RATIO is any finite number).
OverrideConfig ==
  [BaseConfig EXCEPT !.traderAllocations = [t \in {"tb"} |-> Ratio(1, 4)]]
NegativeRatioConfig == [BaseConfig EXCEPT !.copyRatio = Ratio(0 - 1, 1)]
StageConfigs == Configs \cup {OverrideConfig, NegativeRatioConfig}

\* Price 0.40, 100 shares, 40 USD, in money units of 0.20 USD.
ExampleTrade ==
  [transactionHash |-> "s", asset |-> "tok1", side |-> "BUY",
   size |-> 100 * SizeScale, price |-> 2, usdcSize |-> 200]

StageTrades ==
  { [transactionHash |-> "s", asset |-> "tok1", side |-> sd,
     size |-> sz, price |-> pr, usdcSize |-> us] :
      sd \in {"BUY", "SELL"}, sz \in {0, 8, 16}, pr \in {0, 1, 2},
      us \in {0, 2, 6} }
  \cup {ExampleTrade}

StageKeys == {tradeKey(t) : t \in StageTrades}
StageHeld == {0, 4, 8, 9, 20}
StageDailyVolumes ==
  {[day |-> NoDay, spentUsd |-> 0]}
  \cup {[day |-> dayKeyUtc(CacheTtl + 1), spentUsd |-> sp] : sp \in {0, 4, 6, 7}}

InitStages ==
  /\ config \in StageConfigs
  /\ now = CacheTtl + 1
  /\ held \in [Tokens -> StageHeld]
  /\ \E tpl \in StageTrades : \E i \in 1..Len(Traders) :
       LET trade == MkTrade(tpl, Traders[i], now)
       IN /\ feed = [t \in TraderSet |-> IF t = Traders[i] THEN {trade} ELSE {}]
          /\ copy = [pc |-> "admit", now |-> now, idx |-> i,
                     start |-> now - config.tradeLookbackSec,
                     trades |-> <<trade>>, k |-> 1, size |-> 0, notional |-> 0]
  /\ \E dv \in StageDailyVolumes :
       state = [lastSeen |-> [t \in TraderSet |-> 0],
                seenTrades |-> [k \in StageKeys |-> 0],
                dailyVolume |-> dv,
                redeemAttempts |-> [c \in Conditions |-> 0]]
  /\ disk = NoFile
  /\ cache = NewCache
  /\ attempts = [k \in StageKeys |-> 0]
  /\ posted = [k \in StageKeys |-> 0]
  /\ bought = [a \in Tokens |-> 0]
  /\ failed = {}
  /\ crashes = 0
  /\ redeem = startRedeem(config)
  /\ markets = [c \in Conditions |-> "open"]
  /\ submitted = [c \in Conditions |-> <<>>]
  /\ instructions = <<>>
  /\ saving = [l \in Loops |-> NotSaving]

\* handleTrade returns early: the state with the fingerprint noted (or not)
\* and, back in runOnce line 247, the cursor advanced.
returned(st, marks) ==
  [st EXCEPT
     !.seenTrades = IF marks THEN noteSeenTrade(@, tradeKey(Trade), Trade.timestamp)
                             ELSE @,
     !.lastSeen[Trader] = advanceCursor(@, Trade.timestamp)]

\* handleTrade lines 149-152.
AdmitTrade ==
  /\ copy.pc = "admit"
  /\ IF ~shouldCopySide(config, Trade) \/ alreadySeen(state.seenTrades, tradeKey(Trade))
       THEN /\ state' = returned(state, FALSE)
            /\ copy' = finishTrade(copy)
       ELSE /\ state' = state
            /\ copy' = [copy EXCEPT !.pc = "size"]
  /\ UNCHANGED <<settlement, config, now, venue, stored, cache, history, crashes>>

\* handleTrade lines 154-162.
SizeStage ==
  /\ copy.pc = "size"
  /\ LET computed == computeSize(config, Trade)
     IN IF ~computed.ok
          THEN /\ state' = returned(state, TRUE)
               /\ copy' = finishTrade(copy)
          ELSE /\ state' = state
               /\ copy' = [copy EXCEPT !.pc = "bound", !.size = computed.size,
                                       !.notional = computed.notional]
  /\ UNCHANGED <<settlement, config, now, venue, stored, cache, history, crashes>>

\* clampToLimits lines 95-102.
BoundStage ==
  /\ copy.pc = "bound"
  /\ LET bounded == tradeBoundStage(config, copy.size, copy.notional, Trade.price)
     IN IF ~bounded.ok
          THEN /\ state' = returned(state, TRUE)
               /\ copy' = finishTrade(copy)
          ELSE /\ state' = state
               /\ copy' = [copy EXCEPT !.pc = "daily", !.size = bounded.size,
                                       !.notional = bounded.notional]
  /\ UNCHANGED <<settlement, config, now, venue, stored, cache, history, crashes>>

\* clampToLimits lines 104-115 and handleTrade lines 164-170.
DailyStage ==
  /\ copy.pc = "daily"
  /\ LET clamped == dailyVolumeStage(config, state.dailyVolume, dayKeyUtc(now),
                                     Trade.side, copy.size, copy.notional, Trade.price)
         st == [state EXCEPT !.dailyVolume = clamped.dailyVolume]
     IN IF ~clamped.ok
          THEN /\ state' = returned(st, TRUE)
               /\ copy' = finishTrade(copy)
          ELSE /\ state' = st
               /\ copy' = [copy EXCEPT !.pc = "position", !.size = clamped.size,
                                       !.notional = clamped.notional]
  /\ UNCHANGED <<settlement, config, now, venue, stored, cache, history, crashes>>

\* clampToPosition and handleTrade lines 172-178.
\* fetchedOk: whether the fetch of the positions, if one is made, succeeds.
PositionStageWith(fetchedOk) ==
  /\ copy.pc = "position"
  /\ LET fetched == IF fetchedOk THEN positionsList(held) ELSE emptyList
         got == getPositions(cache, now, fetched)
         position == getPositionByToken(got.positions, Trade.asset)
         positionClamped == clampToPosition(config, position, Trade.side,
                                            copy.size, copy.notional, Trade.price)
     IN /\ cache' = got
        /\ IF ~positionClamped.ok
             THEN /\ state' = returned(state, TRUE)
                  /\ copy' = finishTrade(copy)
             ELSE /\ state' = state
                  /\ copy' = [copy EXCEPT !.pc = "place",
                                          !.size = positionClamped.size,
                                          !.notional = positionClamped.notional]
  /\ UNCHANGED <<settlement, config, now, venue, stored, history, crashes>>

PositionStage == \E fetchedOk \in BOOLEAN : PositionStageWith(fetchedOk)

NextStages ==
  \/ AdmitTrade
  \/ SizeStage
  \/ BoundStage
  \/ DailyStage
  \/ PositionStage
  \/ LogDryRun
  \/ PlaceOrder

SpecStages == InitStages /\ [][NextStages]_vars

\* ================================================================ claims
\* Steps of the mirror loop, read off two consecutive states.
\* HandleDone: handleTrade returned for Trade and runOnce went on.
HandleDone ==
  /\ copy.pc \in {"handle", "place"}
  /\ copy'.pc \in {"handle", "poll"}
  /\ \/ copy'.k = copy.k + 1
     \/ copy'.idx = copy.idx + 1

\* BatchDone: handleTrade returned for the last trade of the batch.
BatchDone == HandleDone /\ copy.k = Len(copy.trades)

\* FetchFailed: getTrades threw for Trader.
FetchFailed == Polling /\ Trader \notin failed /\ failed' = failed \cup {Trader}

\* The side filter as the configuration states it.
SideMatches(trade) == config.copySide \in {"BOTH", trade.side}

TradesInFeeds == UNION {feed[t] : t \in TraderSet}

MaxTimestamp(trades) ==
  CHOOSE m \in {trades[i].timestamp : i \in 1..Len(trades)} :
    \A i \in 1..Len(trades) : trades[i].timestamp <= m

C2_AtMostOnePosted == \A key \in Keys : posted[key] <= 1

\* C2, amended: no order is posted for a fingerprint that the state file
\* holds in its seen set, whatever crashes and restarts happen; only the
\* trades handled since the last save can be submitted again.
C2_SavedNeverPosted ==
  [][ \A key \in Keys :
        posted'[key] > posted[key]
          => ~(disk.exists /\ disk.data.seenTrades[key] # 0) ]_vars

\* After a restart, a trade whose fingerprint the state file holds as seen
\* was handled for trader ta (its cursor moved past the saved one) and the
\* fingerprint still has one order.
C2_Witness ==
  \E x \in feed["ta"] :
    /\ crashes > 0
    /\ disk.exists
    /\ disk.data.seenTrades[tradeKey(x)] # 0
    /\ disk.data.lastSeen["ta"] < x.timestamp
    /\ state.lastSeen["ta"] = x.timestamp
    /\ posted[tradeKey(x)] = 1

\* ---- C3
\* C3: the daily counter never exceeds the daily cap (the cap is not
\* negative and the counter starts at 0).
C3_DailyCap ==
  config.maxDailyVolumeUsd >= 0
    => state.dailyVolume.spentUsd <= config.maxDailyVolumeUsd

\* Two BUY trades were submitted and the counter is at the cap.
C3_Witness ==
  /\ state.dailyVolume.spentUsd = config.maxDailyVolumeUsd
  /\ \E k1, k2 \in Keys : k1 # k2 /\ attempts[k1] > 0 /\ attempts[k2] > 0

\* ---- C4
\* C4 as stated: the value of the position held for a token plus the
\* notionals of the BUY orders the venue accepted for it stays within
\* maxPositionSizeUsd.
C4_PositionCap ==
  \A a \in Tokens :
    bought[a] > 0
      => MulPrice(InitialHeld, VenuePrice) + bought[a] <= config.maxPositionSizeUsd

\* ---- C5
\* C5 as stated: an order that reaches submission or the dry-run log has a
\* notional between minTradeUsd and maxTradeUsd.
C5_OrderWithinTradeBounds ==
  copy.pc = "place"
    => /\ config.minTradeUsd <= copy.notional
       /\ copy.notional <= config.maxTradeUsd

\* ---- C6
\* C6 as stated: when handleTrade returns for a trade whose side does not
\* match the filter, the fingerprint is in the seen set.
C6_FilteredMarkedSeen ==
  [][ (HandleDone /\ ~SideMatches(Trade))
        => state'.seenTrades[tradeKey(Trade)] # 0 ]_vars

\* C6, amended: a trade whose side does not match the filter is never
\* sized or submitted, and handleTrade returns for it leaving the seen set
\* and the daily counter as they were.
C6_FilteredUntouched ==
  [][ (copy.pc = "handle" /\ ~SideMatches(Trade) /\ copy' # copy)
        => /\ HandleDone
           /\ copy'.size = 0 /\ copy'.notional = 0
           /\ attempts' = attempts
           /\ posted' = posted
           /\ state'.seenTrades = state.seenTrades
           /\ state'.dailyVolume = state.dailyVolume ]_vars

\* A trade of the filtered side was handled (it is the only trade of its
\* timestamp in the feed and the cursor stands on it) and is not seen.
C6_Witness ==
  \E t \in TraderSet : \E x \in feed[t] :
    /\ ~SideMatches(x)
    /\ \A y \in feed[t] : y.timestamp = x.timestamp => y = x
    /\ state.lastSeen[t] = x.timestamp
    /\ state.seenTrades[tradeKey(x)] = 0
    /\ attempts[tradeKey(x)] = 0

\* ---- C7
\* C7: when handleTrade returns for a trade that passes the side filter
\* and was not seen when it was handed over, the fingerprint is in the seen
\* set, whichever branch was taken.
C7_TerminalBranchesMarkSeen ==
  [][ (/\ HandleDone
       /\ SideMatches(Trade)
       /\ (copy.pc = "handle" => state.seenTrades[tradeKey(Trade)] = 0))
        => state'.seenTrades[tradeKey(Trade)] # 0 ]_vars

\* One fingerprint is seen without a submission attempt (unsizeable or
\* rejected by a clamp stage) and another one after an attempt.
C7_Witness ==
  /\ ~config.dryRun
  /\ \E k1, k2 \in Keys :
       /\ state.seenTrades[k1] # 0 /\ attempts[k1] = 0
       /\ state.seenTrades[k2] # 0 /\ attempts[k2] > 0

\* ---- C8
\* C8: when runOnce has handled the last trade of a trader's batch, the
\* trader's cursor is the largest timestamp of the batch.
C8_CursorIsBatchMax ==
  [][ BatchDone => state'.lastSeen[Trader] = MaxTimestamp(copy.trades) ]_vars

\* A trader's second batch is done: its cursor stands on a trade that was
\* fetched from the earlier cursor and that was not submitted.
C8_Witness ==
  \E t \in TraderSet : \E x, y \in feed[t] :
    /\ y.timestamp < x.timestamp
    /\ state.lastSeen[t] = x.timestamp
    /\ copy.pc = "poll"
    /\ copy.idx > 1
    /\ config.copyTraders[copy.idx - 1] = t
    /\ attempts[tradeKey(x)] = 0

\* ---- C9
\* C9: no step lowers a trader's cursor, and the lower time bound of a
\* fetch is cursor + 1 when the trader has a cursor and runOnce's now
\* minus the lookback window when it has none.
C9_CursorMonotoneAndStart ==
  [][ /\ \A t \in TraderSet : state'.lastSeen[t] >= state.lastSeen[t]
      /\ (Polling /\ copy'.pc = "handle")
           => copy'.start = IF state.lastSeen[Trader] # 0
                              THEN state.lastSeen[Trader] + 1
                              ELSE copy.now - config.tradeLookbackSec ]_vars

\* A batch was fetched from cursor + 1.
C9_Witness ==
  /\ copy.pc = "handle"
  /\ copy.k = 1
  /\ state.lastSeen[Trader] # 0
  /\ copy.start = state.lastSeen[Trader] + 1

\* ---- C10
\* C10: a failed fetch leaves the state (cursors, seen set) as it was and
\* runOnce goes on to the next trader of the same iteration; a trader's
\* cursor changes only while a batch of that trader is handled, so the
\* next fetch of the failed trader starts from the unchanged cursor.
C10_FetchFailureIsolated ==
  [][ /\ FetchFailed
        => /\ state' = state
           /\ copy' = [copy EXCEPT !.idx = copy.idx + 1]
      /\ \A t \in TraderSet :
           state'.lastSeen[t] # state.lastSeen[t]
             => copy.pc \in {"handle", "place"} /\ Trader = t ]_vars

\* The fetch of ta failed in this iteration, the iteration went on to tb
\* and moved tb's cursor, and ta's cursor is the saved one.
C10_Witness ==
  /\ "ta" \in failed
  /\ copy.pc = "poll"
  /\ copy.idx > Len(config.copyTraders)
  /\ state.lastSeen["tb"] > loadState(disk).lastSeen["tb"]
  /\ state.lastSeen["ta"] = loadState(disk).lastSeen["ta"]
  /\ \E x \in feed["ta"] : x.timestamp > state.lastSeen["ta"]

\* ---- C11
\* C11: the spent amount never decreases while the stored day key stays;
\* the stored day key changes only to the current UTC day, which is a later
\* day (so each day is entered once), and the counter then restarts from 0
\* before the spend of the order being placed is added; a spend is always
\* added under the current UTC day's key.
C11_DailyCounter ==
  [][ LET dv == state.dailyVolume
          dv2 == state'.dailyVolume
          today == dayKeyUtc(now)
      IN /\ dv2.day = dv.day => dv2.spentUsd >= dv.spentUsd
         /\ dv2.day # dv.day
              => /\ dv2.day = today
                 /\ dv2.day > dv.day
                 /\ dv2.spentUsd = IF copy.pc = "place" THEN copy.notional ELSE 0
         /\ (copy.pc = "place" /\ dv2 # dv)
              => /\ dv2.day = today
                 /\ dv2.spentUsd =
                      (IF dv.day = today THEN dv.spentUsd ELSE 0) + copy.notional
    ]_vars

\* On the second day the counter holds a spend of that day and less than
\* all that was bought: the first day's spend was reset.
C11_Witness ==
  /\ dayKeyUtc(now) > dayKeyUtc(CacheTtl + 1)
  /\ state.dailyVolume.day = dayKeyUtc(now)
  /\ state.dailyVolume.spentUsd > 0
  /\ \E a \in Tokens : bought[a] > state.dailyVolume.spentUsd

\* Where handleTrade stands in the stage-by-stage runs.
InHandleTrade ==
  copy.pc \in {"admit", "size", "bound", "daily", "position", "place"}

\* ---- C12
\* C12: no step of handleTrade on a SELL trade changes the daily counter
\* (day key or spent amount), and the daily-volume stage passes a SELL
\* candidate on with its size and notional as they were.
C12_SellLeavesDailyCounter ==
  [][ (InHandleTrade /\ Trade.side = "SELL")
        => /\ state'.dailyVolume = state.dailyVolume
           /\ (copy.pc = "daily" /\ copy' # copy)
                => /\ copy'.pc = "position"
                   /\ copy'.size = copy.size
                   /\ copy'.notional = copy.notional ]_vars

\* A SELL order was posted while the counter of a day stood at the cap
\* or at a stale day.
C12_Witness ==
  /\ copy.pc = "poll"
  /\ \E x \in TradesInFeeds :
       /\ x.side = "SELL"
       /\ posted[tradeKey(x)] = 1
  /\ \/ state.dailyVolume.spentUsd = config.maxDailyVolumeUsd
     \/ state.dailyVolume.day = NoDay

\* ---- C13
\* C13: each clamp stage that passes a candidate on passes a notional not
\* above the one it was given; a stage that rejects ends handleTrade: no
\* later stage runs (the positions are not read after a rejection by
\* clampToLimits) and no order is submitted.
C13_ClampMonotone ==
  [][ (copy.pc \in {"bound", "daily", "position"} /\ copy' # copy)
        => \/ /\ copy'.pc = CASE copy.pc = "bound" -> "daily"
                              [] copy.pc = "daily" -> "position"
                              [] OTHER -> "place"
              /\ copy'.notional <= copy.notional
              /\ copy'.notional > 0
           \/ /\ copy'.pc = "poll"
              /\ copy.pc # "position" => cache' = cache
              /\ attempts' = attempts
              /\ posted' = posted
              /\ held' = held ]_vars

\* A candidate reaches the order with less than computeSize gave it, after
\* both the daily-volume and the position stage have shrunk it.
C13_Witness ==
  /\ copy.pc = "place"
  /\ copy.notional < config.maxDailyVolumeUsd - state.dailyVolume.spentUsd
  /\ config.maxDailyVolumeUsd - state.dailyVolume.spentUsd < config.maxTradeUsd
  /\ config.maxTradeUsd < Trade.usdcSize
  /\ config = BaseConfig

\* ---- C14
\* C14: the position stage passes a SELL on only when the position list it
\* read has an entry of size > 0 for the token, with a size not above the
\* held size read; a candidate above it is cut to the held size and its
\* notional recomputed as size x trade price, any other candidate passes
\* as it was; and the order placed is the one the stage passed on.
C14_SellWithinHeld ==
  [][ /\ (copy.pc = "position" /\ Trade.side = "SELL" /\ copy' # copy)
           => LET heldRead == cache'.positions[Trade.asset]
              IN IF copy'.pc = "place"
                   THEN /\ heldRead > 0
                        /\ copy'.size <= heldRead
                        /\ IF copy.size > heldRead
                             THEN /\ copy'.size = heldRead
                                  /\ copy'.notional =
                                       (heldRead * Trade.price) \div SizeScale
                             ELSE /\ copy'.size = copy.size
                                  /\ copy'.notional = copy.notional
                   ELSE /\ copy'.pc = "poll"
                        /\ attempts' = attempts
                        /\ posted' = posted
      /\ \A key \in StageKeys :
           posted'[key] > posted[key]
             => /\ copy.pc = "place"
                /\ key = tradeKey(Trade)
                /\ held'[Trade.asset] \in
                     {held[Trade.asset],
                      IF Trade.side = "BUY" THEN held[Trade.asset] + copy.size
                      ELSE Max(0, held[Trade.asset] - copy.size)} ]_vars

\* A SELL candidate of 8 against a held size of 4 goes to the order with
\* size 4 and the notional of 4 at the trade price.
C14_Witness ==
  /\ copy.pc = "place"
  /\ Trade.side = "SELL"
  /\ computeSize(config, Trade).size = 2 * held[Trade.asset]
  /\ copy.size = held[Trade.asset]
  /\ copy.notional = MulPrice(held[Trade.asset], Trade.price)
  /\ copy.notional < computeSize(config, Trade).notional

\* ---- C15
\* C15: with remaining = maxPositionSizeUsd minus the value (size x current
\* price) of the position the stage read for the token, the position stage
\* passes a BUY on only if remaining > 0, with the smaller of its notional
\* and remaining; it rejects the BUY when remaining <= 0 and when the
\* notional is above a remaining that is below the trade minimum; the
\* order placed carries the notional the stage passed on.
C15_BuyWithinRemaining ==
  [][ /\ (copy.pc = "position" /\ Trade.side = "BUY" /\ copy' # copy)
           => LET heldRead == cache'.positions[Trade.asset]
                  currentValue == (heldRead * VenuePrice) \div SizeScale
                  remaining == config.maxPositionSizeUsd - currentValue
                  rejects == \/ remaining <= 0
                             \/ /\ copy.notional > remaining
                                /\ remaining < config.minTradeUsd
              IN IF rejects
                   THEN /\ copy'.pc = "poll"
                        /\ attempts' = attempts
                        /\ posted' = posted
                   ELSE /\ copy'.pc = "place"
                        /\ copy'.notional <= remaining
                        /\ copy'.notional = Min(copy.notional, remaining)
      /\ \A a \in Tokens :
           bought'[a] # bought[a]
             => /\ copy.pc = "place"
                /\ Trade.side = "BUY"
                /\ Trade.asset = a
                /\ bought'[a] = bought[a] + copy.notional ]_vars

\* A BUY reaches the order cut to what the position read leaves of the cap.
C15_Witness ==
  /\ copy.pc = "place"
  /\ Trade.side = "BUY"
  /\ cache.positions[Trade.asset] = held[Trade.asset]
  /\ held[Trade.asset] > 0
  /\ copy.notional =
       config.maxPositionSizeUsd - MulPrice(held[Trade.asset], VenuePrice)
  /\ copy.notional < Min(computeSize(config, Trade).notional, config.maxTradeUsd)

\* ---- C16
\* The reference sizing: r is the trader's override when one is configured
\* and the global ratio otherwise; PERCENT_USD: notional = usdcSize x r,
\* size = notional / price; PERCENT_SHARES: size = trade size x r, notional
\* = size x price; FIXED_USD: notional = fixedUsd, size = notional / price;
\* FIXED_SHARES: size = fixedShares, notional = size x price.
ReferenceRatio(trade) ==
  IF trade.proxyWallet \in DOMAIN config.traderAllocations
    THEN config.traderAllocations[trade.proxyWallet]
    ELSE config.copyRatio

ReferenceNotional(trade) ==
  LET r == ReferenceRatio(trade)
  IN CASE config.copyStrategy = "PERCENT_USD" -> (trade.usdcSize * r.num) \div r.den
       [] config.copyStrategy = "PERCENT_SHARES" ->
            (((trade.size * r.num) \div r.den) * trade.price) \div SizeScale
       [] config.copyStrategy = "FIXED_USD" -> config.fixedUsd
       [] config.copyStrategy = "FIXED_SHARES" ->
            (config.fixedShares * trade.price) \div SizeScale

ReferenceSize(trade) ==
  LET r == ReferenceRatio(trade)
  IN CASE config.copyStrategy = "PERCENT_USD" ->
            (ReferenceNotional(trade) * SizeScale) \div trade.price
       [] config.copyStrategy = "PERCENT_SHARES" -> (trade.size * r.num) \div r.den
       [] config.copyStrategy = "FIXED_USD" ->
            (config.fixedUsd * SizeScale) \div trade.price
       [] config.copyStrategy = "FIXED_SHARES" -> config.fixedShares

\* C16: whenever computeSize gives a candidate it is the reference one,
\* and it gives one whenever the price and the reference size and notional
\* are positive.
C16_ComputeSizeIsReference ==
  [][ (copy.pc = "size" /\ copy' # copy)
        => IF copy'.pc = "bound"
             THEN /\ copy'.size = ReferenceSize(Trade)
                  /\ copy'.notional = ReferenceNotional(Trade)
             ELSE \/ Trade.price <= 0
                  \/ ReferenceSize(Trade) <= 0
                  \/ ReferenceNotional(Trade) <= 0 ]_vars

\* Price 0.40, size 100, notional 40 (200 units of 0.20), override 0.25
\* under PERCENT_USD: notional 10 (50 units), size 25 shares.
C16_Witness ==
  /\ copy.pc = "bound"
  /\ tradeKey(Trade) = tradeKey(ExampleTrade)
  /\ config.copyStrategy = "PERCENT_USD"
  /\ config.copyRatio = Ratio(1, 1)
  /\ ReferenceRatio(Trade) = Ratio(1, 4)
  /\ copy.notional = 50
  /\ copy.size = 25 * SizeScale

\* ---- C17
\* C17: a trade whose price is not positive, or whose reference size or
\* notional is not positive (a ratio of 0, a negative ratio, an empty
\* trade), ends handleTrade at computeSize: no clamp stage runs (the daily
\* counter is not reset, the positions are not read), no order is
\* submitted and the daily counter is as it was.
C17_NotSizeable ==
  [][ (/\ copy.pc = "size"
       /\ copy' # copy
       /\ \/ Trade.price <= 0
          \/ ReferenceSize(Trade) <= 0
          \/ ReferenceNotional(Trade) <= 0)
        => /\ copy'.pc = "poll"
           /\ state'.dailyVolume = state.dailyVolume
           /\ cache' = cache
           /\ attempts' = attempts
           /\ posted' = posted
           /\ held' = held ]_vars

\* handleTrade returned for x at computeSize: x is noted, and nothing was
\* reset, read or submitted.
NotSizedAt(x) ==
  /\ copy.pc = "poll"
  /\ x \in TradesInFeeds
  /\ state.seenTrades[tradeKey(x)] # 0
  /\ state.dailyVolume.day = NoDay
  /\ cache = NewCache
  /\ attempts[tradeKey(x)] = 0

\* A trade with a positive price and amounts was found not sizeable under
\* a negative ratio: nothing was reset, read or submitted.
C17_Witness ==
  \E x \in TradesInFeeds :
    /\ NotSizedAt(x)
    /\ x.price > 0 /\ x.size > 0 /\ x.usdcSize > 0
    /\ config.copyRatio.num < 0

\* ---- C19
\* C19 as stated: a step of handleTrade in which the fetch of the account's
\* positions fails marks no fingerprint seen.
C19_PositionFetchFailureMarksNothing ==
  [][ (/\ PositionStageWith(FALSE)
       /\ ~cacheFresh(cache, now)
       /\ held[Trade.asset] > 0)
        => state'.seenTrades = state.seenTrades ]_vars

C20_SubmissionsApart ==
  \A c \in Conditions :
    \A i, j \in DOMAIN submitted[c] :
      i < j => submitted[c][j] - submitted[c][i] > REDEEM_COOLDOWN_SEC

\* A condition whose submission failed was submitted a second time, as
\* early as the cooldown allows.
C20_Witness ==
  \E c \in Conditions :
    /\ Len(submitted[c]) = 2
    /\ markets[c] = "resolved"
    /\ submitted[c][2] - submitted[c][1] = REDEEM_COOLDOWN_SEC + 1

\* ---- C21
\* C21 as stated: the redeem-attempt log holds an entry for a condition id
\* only if a settlement instruction for that condition id was submitted.
C21_EntryOnlyAfterSubmission ==
  \A c \in Conditions :
    state.redeemAttempts[c] # 0 => Len(submitted[c]) > 0

\* ---- C22
\* The instructions submitted so far for condition c.
InstructionsFor(c) ==
  {i \in DOMAIN instructions : instructions[i].conditionId = c}

\* C22: redeemPositions submits at most one instruction per condition id,
\* and when it has returned exactly one for every condition id that has a
\* position flagged redeemable in the input and none for the others; the
\* instruction is a negative-risk one if a redeemable position of the
\* condition is flagged negative-risk and a standard one otherwise.
C22_OneInstructionPerCondition ==
  redeem.pc = "redeem" =>
    \A c \in Conditions :
      LET flagged == \E pos \in redeem.eligible :
                       pos.conditionId = c /\ pos.redeemable
          negRisk == \E pos \in redeem.eligible :
                       pos.conditionId = c /\ pos.redeemable /\ pos.negativeRisk
      IN /\ Cardinality(InstructionsFor(c)) <= (IF flagged THEN 1 ELSE 0)
         /\ (redeem.pending = {} /\ flagged) => Cardinality(InstructionsFor(c)) = 1
         /\ \A i \in InstructionsFor(c) :
              instructions[i].kind = IF negRisk THEN "negRisk" ELSE "ctf"

\* redeemPositions has returned for an input of two conditions, one with a
\* negative-risk position and one without, and a position not flagged
\* redeemable: two instructions, one of each kind.
C22_Witness ==
  /\ redeem.pc = "redeem"
  /\ redeem.pending = {}
  /\ Len(instructions) = 2
  /\ {instructions[1].kind, instructions[2].kind} = {"ctf", "negRisk"}
  /\ \E pos \in redeem.eligible : ~pos.redeemable

\* ---- C23
\* Math.round of units / SubUnit, never below 0, and 0 for a size that is
\* not finite.
NearestBaseUnits(amount) ==
  IF ~amount.finite THEN 0
  ELSE LET q == amount.units \div SubUnit
           r == amount.units % SubUnit
           n == IF 2 * r >= SubUnit THEN q + 1 ELSE q
       IN IF n < 0 THEN 0 ELSE n

RECURSIVE TotalBaseUnits(_)
TotalBaseUnits(group) ==
  IF group = {} THEN 0
  ELSE LET pos == CHOOSE q \in group : TRUE
       IN NearestBaseUnits(pos.size) + TotalBaseUnits(group \ {pos})

\* The redeemable positions of condition c and outcome index idx in the
\* input of redeemPositions.
InputOf(c, idx) ==
  {pos \in redeem.eligible :
     pos.conditionId = c /\ pos.redeemable /\ pos.outcomeIndex = idx}

\* C23 as stated: the amounts of a negative-risk instruction never include
\* the size of a position that is not flagged negative-risk.
C23_AmountsOfFlaggedOnly ==
  redeem.pc = "redeem" =>
    \A i \in DOMAIN instructions :
      instructions[i].kind = "negRisk" =>
        \A idx \in {0, 1} :
          instructions[i].amounts[idx + 1] =
            TotalBaseUnits({pos \in InputOf(instructions[i].conditionId, idx) :
                              pos.negativeRisk})

\* ---- C24
\* C24: the amounts of a negative-risk instruction are the pair of the sum
\* of the base-unit sizes of the group's positions with outcome index 0 and
\* the sum for outcome index 1, and neither is negative.
C24_NegRiskAmounts ==
  redeem.pc = "redeem" =>
    \A i \in DOMAIN instructions :
      instructions[i].kind = "negRisk" =>
        /\ Len(instructions[i].amounts) = 2
        /\ \A idx \in {0, 1} :
             /\ instructions[i].amounts[idx + 1] =
                  TotalBaseUnits(InputOf(instructions[i].conditionId, idx))
             /\ instructions[i].amounts[idx + 1] >= 0

\* Sizes 10 at outcome index 0 and 5 at outcome index 1 gave the amounts
\* [10000000, 5000000].
C24_Witness ==
  /\ redeem.eligible = ExampleGroup
  /\ Len(instructions) = 1
  /\ instructions[1].kind = "negRisk"
  /\ instructions[1].amounts = <<10000000, 5000000>>

\* ---- C27
\* C27: with DRY_RUN enabled no step calls placeLimitOrder or posts an
\* order, and the step that follows a trade's passing of sizing and all
\* clamp stages (the log) marks the trade seen and leaves the daily volume
\* counter as it was.
C27_DryRunNoOrder ==
  [][ config.dryRun =>
        /\ attempts' = attempts
        /\ posted' = posted
        /\ bought' = bought
        /\ held' = held
        /\ (copy.pc = "place" /\ copy' # copy) =>
             /\ state'.seenTrades[tradeKey(Trade)] = Trade.timestamp
             /\ state'.dailyVolume = state.dailyVolume ]_vars

\* In a dry run the first trade of a batch, a BUY, was handled to the end:
\* it is marked seen, nothing was spent and nothing was posted.
C27_Witness ==
  /\ config.dryRun
  /\ copy.pc = "handle"
  /\ copy.k = 2
  /\ copy.trades[1].side = "BUY"
  /\ state.seenTrades[tradeKey(copy.trades[1])] = copy.trades[1].timestamp
  /\ state.dailyVolume = [day |-> dayKeyUtc(now), spentUsd |-> 0]
  /\ \A key \in Keys : attempts[key] = 0 /\ posted[key] = 0

\* ---- C28
\* C28 as stated: no entry of the seen set is removed while its trade is
\* still inside the lookback window (its timestamp is not older than now
\* minus the lookback).
C28_PruneKeepsLookbackWindow ==
  [][ \A key \in Keys :
        (state.seenTrades[key] # 0 /\ state'.seenTrades[key] = 0)
          => state.seenTrades[key] < now - config.tradeLookbackSec ]_vars

\* ---- C25
\* C25: a loop whose iteration raised an error (it is in its catch block)
\* goes on to begin another iteration, and the other loop begins further
\* iterations as well.
C25_LoopsSurviveErrors ==
  /\ (copy.pc = "caught" \/ redeem.pc = "caught") ~> (copy.pc = "poll")
  /\ (copy.pc = "caught" \/ redeem.pc = "caught") ~> (redeem.pc = "fetch")

\* The iteration of the mirror loop raised an error while an iteration of
\* the redeem loop is under way.
C25_Witness ==
  /\ copy.pc = "caught"
  /\ redeem.pc = "redeem"
  /\ redeem.pending # {}

\* ---- C26
\* C26 as stated: once no saveState call is in flight, the state file is a
\* complete, parseable snapshot.
C26_FileIsOneSnapshot ==
  (disk.exists /\ \A l \in Loops : ~saving[l].open) => Parseable(disk)

\* ---- C29
\* C29: a step of the mirror loop leaves the redeem-attempt log as it was,
\* and a step of the redeem loop leaves the trader cursors, the seen set
\* and the daily volume counter as they were.
C29_DisjointWrites ==
  [][ /\ copy' # copy => state'.redeemAttempts = state.redeemAttempts
      /\ redeem' # redeem =>
           /\ state'.lastSeen = state.lastSeen
           /\ state'.seenTrades = state.seenTrades
           /\ state'.dailyVolume = state.dailyVolume ]_vars

\* Both loops have written their part: the mirror loop a cursor, a seen
\* entry and the daily counter, the redeem loop an attempt.
C29_Witness ==
  /\ state.lastSeen["ta"] # 0
  /\ \E key \in Keys : state.seenTrades[key] # 0
  /\ state.dailyVolume.spentUsd > 0
  /\ state.redeemAttempts["c1"] # 0

\* ---- C30
\* C30: while a trade is between its daily-cap check and its counter
\* update (handleTrade awaits the order), the daily counter, the trade in
\* hand and the batch change only by the step that finishes this trade
\* (the order, or the dry-run log), whatever the redeem loop does in
\* between; and the trades of a batch are handled in the order fetched,
\* one index after the other.
C30_EvaluationsDoNotOverlap ==
  [][ /\ copy.pc = "place" =>
           \/ /\ state'.dailyVolume = state.dailyVolume
              /\ copy' = copy
           \/ /\ state'.seenTrades[tradeKey(Trade)] = Trade.timestamp
              /\ attempts'[tradeKey(Trade)] = attempts[tradeKey(Trade)] + 1
                   \/ config.dryRun
              /\ \/ copy'.pc = "handle" /\ copy'.k = copy.k + 1
                                        /\ copy'.trades = copy.trades
                 \/ copy'.pc = "poll" /\ copy.k = Len(copy.trades)
      /\ (copy.pc = "handle" /\ copy' # copy) =>
           \/ copy'.pc = "place" /\ copy'.k = copy.k /\ copy'.trades = copy.trades
           \/ copy'.pc = "handle" /\ copy'.k = copy.k + 1
                                  /\ copy'.trades = copy.trades
           \/ copy'.pc = "poll" /\ copy.k = Len(copy.trades) ]_vars

\* The second trade of a batch, a BUY, has passed its daily-cap check and
\* awaits its order, after the order of the first trade was placed and
\* while the redeem loop is submitting.
C30_Witness ==
  /\ copy.pc = "place"
  /\ copy.k = 2
  /\ attempts[tradeKey(copy.trades[1])] = 1
  /\ Trade.side = "BUY"
  /\ copy.notional > 0
  /\ state.dailyVolume.day = dayKeyUtc(now)
  /\ redeem.pc = "redeem"

\* ---- C32
\* C32 as stated: the daily volume counter increases only in a step in
\* which a BUY order was posted to the venue and accepted.
C32_SpendOnlyForAcceptedOrder ==
  [][ state'.dailyVolume.spentUsd > state.dailyVolume.spentUsd
        => \E a \in Tokens : bought'[a] > bought[a] ]_vars

C33_NoTradeBehindCursorUnhandled ==
  copy.pc \in {"sleep", "poll"} =>
    \A x \in feed["ta"] :
      x.timestamp <= state.lastSeen["ta"]
        => state.seenTrades[tradeKey(x)] # 0

====
